---------------------------- MODULE Spec2Model ----------------------------
(* A model of dstruct: the DStruct attribute container (src/dstruct.py)    *)
(* and the class crawl it collects its schema with (src/utils.py).          *)
(*                                                                          *)
(* One instance is followed through its life: the constructor call, the     *)
(* three steps of DStruct.__init__ (load, mark, optional schema check) and  *)
(* then any sequence of field writes, explicit check_struct_schema calls    *)
(* and keyed or named reads.                                                *)
(*                                                                          *)
(* Spec draws field names from x, y and _struct_has_loaded; SpecAnyName     *)
(* draws them from names of which one, check_struct_schema, is also a       *)
(* method of the container.  A schema dict's iteration order is not known:  *)
(* it is chosen when the dict is first iterated and kept from then on.      *)
(*                                                                          *)
(* Python values are written as strings ("9", "9.4", "None", ...), types   *)
(* and classes by their names.  A schema's "no expected type" is "None".    *)
EXTENDS Naturals, Sequences, FiniteSets, TLC

VARIABLES
    cls,          \* self.__class__: the class the instance is made from
    input_dict,   \* __init__'s positional argument (None or a mapping)
    entries,      \* __init__'s keyword arguments
    dict,         \* self.__dict__: the instance's fields
    pc,           \* "call" | "loaded" | "marked" | "constructed" | "raised"
    last,         \* the last operation that ran and its argument
    result,       \* what that operation returned or raised
    clazz,        \* the class the last schema check took its schema from
    schema,       \* clazz.required_attributes as that check read it
    visited,      \* extract_classes(clazz) as the collector walked it
    examined,     \* the schema keys that check looked at, in order
    items_order   \* iteration order of each schema dict read so far

vars == <<cls, input_dict, entries, dict, pc, last, result, clazz, schema,
          visited, examined, items_order>>

-----------------------------------------------------------------------------
(* Bounds                                                                   *)

\* At most this many items in input_dict and entries together.
MaxInput == 2

-----------------------------------------------------------------------------
(* Values and their runtime types                                           *)

\* type(value), for the values of the model.
TypeOf ==
    [ v \in {"9", "True", "9.4", "None", "'v'", "u'v'", "Label('hi')"} |->
        CASE v = "9"           -> "int"
          [] v = "True"        -> "bool"
          [] v = "9.4"         -> "float"
          [] v = "None"        -> "NoneType"
          [] v = "'v'"         -> "str"
          [] v = "u'v'"        -> "unicode"
          [] v = "Label('hi')" -> "Label" ]

\* The values callers pass and store; True is what __init__ itself stores.
Values == DOMAIN TypeOf \ {"True"}

\* The direct base of every value type ("object" has none).
TypeBase ==
    [ t \in {"object", "int", "bool", "float", "NoneType", "basestring",
             "str", "unicode", "BaseLabel", "Label"} |->
        CASE t = "bool"    -> "int"
          [] t = "str"     -> "basestring"
          [] t = "unicode" -> "basestring"
          [] t = "Label"   -> "BaseLabel"
          [] OTHER         -> "object" ]

Types == DOMAIN TypeBase

RECURSIVE issubclass(_, _)
issubclass(t, u) ==
    IF t = u THEN TRUE
    ELSE IF t = "object" THEN FALSE
    ELSE issubclass(TypeBase[t], u)

\* isinstance that takes only the exact type.
isinstance_exact(v, t) == TypeOf[v] = t

isinstance(v, t) == issubclass(TypeOf[v], t)

-----------------------------------------------------------------------------
(* Field names                                                              *)

\* Ordinary field names, and the marker __init__ itself stores.
Names == {"x", "y", "_struct_has_loaded"}

\* Field names of which one is also the name of a method of the container.
AnyNames == {"x", "y", "check_struct_schema"}

\* The fields the instance's user writes after construction.
Written == {"x", "y"}

\* The same, for the field names that include a method's.
AnyWritten == {"x", "check_struct_schema"}

EmptyDict == [k \in {} |-> "None"]

\* dict.update(other): other's items are stored over d's.
update(d, other) ==
    [k \in DOMAIN d \cup DOMAIN other |->
        IF k \in DOMAIN other THEN other[k] ELSE d[k]]

\* Every mapping from at most n of the names to values.
Dicts(names, n) ==
    UNION {[S -> Values] : S \in {T \in SUBSET names : Cardinality(T) <= n}}

None == [kind |-> "None", items |-> EmptyDict]
Mapping(m) == [kind |-> "dict", items |-> m]

-----------------------------------------------------------------------------
(* Classes                                                                  *)
(*                                                                          *)
(* What a class statement leaves in a class object: its bases, its method   *)
(* resolution order, and its own members of interest: RequiredAttribute     *)
(* markers (name -> required_type), a literal required_attributes mapping,  *)
(* an own struct_schema_check_on_init, an own get_extra_allowed_types.      *)
(* The classes are those of src/tests/tests.py with their attributes named  *)
(* x and y (SlowInt's value is x; MapLocation's latitude and label, NonUser's*)
(* name and age, Product's name and price_in_cents are x and y), their      *)
(* twins in the other authoring style, and small inheritance graphs.        *)

NoMarkers == EmptyDict
NoOverride == [own |-> FALSE, super |-> FALSE, add |-> EmptyDict]

class(bases, mro, markers) ==
    [bases |-> bases, mro |-> mro, markers |-> markers, literal |-> << >>,
     check_on_init |-> << >>, extra |-> NoOverride]

ClassNames ==
    {"object", "DStruct", "CartesianCoordinate", "CartesianDict",
     "MapLocation", "MapLocationDict", "SlowInt", "SlowIntDeclared",
     "HippieStruct", "NonUser", "Product", "Parent", "Child",
     "Top", "Left", "Right", "Bottom", "Mixin", "Mixed"}

Class ==
    [ c \in ClassNames |->
      CASE c = "object" -> class(<< >>, <<"object">>, NoMarkers)
        [] c = "DStruct" ->
             class(<<"object">>, <<"DStruct", "object">>, NoMarkers)
        \* x = DStruct.RequiredAttribute(); y = DStruct.RequiredAttribute()
        [] c = "CartesianCoordinate" ->
             class(<<"DStruct">>, <<c, "DStruct", "object">>,
                   [x |-> "None", y |-> "None"])
        \* required_attributes = {"x": None, "y": None}
        [] c = "CartesianDict" ->
             [class(<<"DStruct">>, <<c, "DStruct", "object">>, NoMarkers)
                EXCEPT !.literal = << [x |-> "None", y |-> "None"] >>]
        [] c = "MapLocation" ->
             class(<<"DStruct">>, <<c, "DStruct", "object">>,
                   [x |-> "float", y |-> "BaseLabel"])
        [] c = "MapLocationDict" ->
             [class(<<"DStruct">>, <<c, "DStruct", "object">>, NoMarkers)
                EXCEPT !.literal = << [x |-> "float", y |-> "BaseLabel"] >>]
        \* required_attributes = {"value": int}
        [] c = "SlowInt" ->
             [class(<<"DStruct">>, <<c, "DStruct", "object">>, NoMarkers)
                EXCEPT !.literal = << [x |-> "int"] >>]
        [] c = "SlowIntDeclared" ->
             class(<<"DStruct">>, <<c, "DStruct", "object">>, [x |-> "int"])
        \* int and float interchangeable, on top of the inherited rule
        [] c = "HippieStruct" ->
             [class(<<"DStruct">>, <<c, "DStruct", "object">>,
                    [x |-> "int", y |-> "float"])
                EXCEPT !.extra = [own |-> TRUE, super |-> TRUE,
                                  add |-> [int |-> <<"float">>,
                                           float |-> <<"int">>]]]
        \* None allowed where an int is expected; the inherited rule dropped
        [] c = "NonUser" ->
             [class(<<"DStruct">>, <<c, "DStruct", "object">>,
                    [x |-> "str", y |-> "int"])
                EXCEPT !.extra = [own |-> TRUE, super |-> FALSE,
                                  add |-> [int |-> <<"NoneType">>]]]
        \* struct_schema_check_on_init = False
        [] c = "Product" ->
             [class(<<"DStruct">>, <<c, "DStruct", "object">>,
                    [x |-> "str", y |-> "int"])
                EXCEPT !.check_on_init = << FALSE >>]
        \* single inheritance, x declared at both levels
        [] c = "Parent" ->
             class(<<"DStruct">>, <<c, "DStruct", "object">>, [x |-> "float"])
        [] c = "Child" ->
             class(<<"Parent">>, <<c, "Parent", "DStruct", "object">>,
                   [x |-> "int", y |-> "None"])
        \* a diamond: Bottom(Left, Right), Left(Top), Right(Top)
        [] c = "Top" ->
             class(<<"DStruct">>, <<c, "DStruct", "object">>,
                   [x |-> "BaseLabel"])
        [] c = "Left" ->
             class(<<"Top">>, <<c, "Top", "DStruct", "object">>,
                   [x |-> "int"])
        [] c = "Right" ->
             class(<<"Top">>, <<c, "Top", "DStruct", "object">>,
                   [x |-> "str", y |-> "float"])
        [] c = "Bottom" ->
             class(<<"Left", "Right">>,
                   <<c, "Left", "Right", "Top", "DStruct", "object">>,
                   [y |-> "int"])
        \* multiple inheritance with a class that is no container
        [] c = "Mixin" ->
             class(<<"object">>, <<c, "object">>, [y |-> "int"])
        [] c = "Mixed" ->
             class(<<"DStruct", "Mixin">>,
                   <<c, "DStruct", "Mixin", "object">>, NoMarkers) ]

Range(s) == {s[i] : i \in DOMAIN s}

\* The classes an instance can be made from: DStruct and its subclasses.
Containers == {c \in ClassNames : "DStruct" \in Range(Class[c].mro)}

-----------------------------------------------------------------------------
(* src/utils.py                                                             *)

\* [x for x in input_list if x not in seen and not seen.add(x)]
RECURSIVE dedupe_from(_, _, _)
dedupe_from(input_list, i, kept) ==
    IF i > Len(input_list) THEN kept
    ELSE IF input_list[i] \in Range(kept)
         THEN dedupe_from(input_list, i + 1, kept)
         ELSE dedupe_from(input_list, i + 1, Append(kept, input_list[i]))

dedupe_list(input_list) == dedupe_from(input_list, 1, << >>)

\* list.remove(x): drops the first occurrence of x.
remove(list, x) ==
    LET at == {i \in DOMAIN list : list[i] = x}
        first == CHOOSE i \in at : \A j \in at : i <= j
    IN  IF at = {} THEN list
        ELSE SubSeq(list, 1, first - 1) \o SubSeq(list, first + 1, Len(list))

RECURSIVE extract_classes(_)
RECURSIVE extract_bases(_, _)
\* extracted += extract_classes(base), for the bases from the i-th on
extract_bases(bases, i) ==
    IF i > Len(bases) THEN << >>
    ELSE extract_classes(bases[i]) \o extract_bases(bases, i + 1)

extract_classes(c) ==
    LET extracted == <<c>> \o extract_bases(Class[c].bases, 1)
    IN  dedupe_list(IF "object" \in Range(extracted)
                    THEN remove(extracted, "object")
                    ELSE extracted)

-----------------------------------------------------------------------------
(* src/dstruct.py: what a class answers                                     *)

\* The first class of a method resolution order among those at these places.
first_at(mro, at) == mro[CHOOSE i \in at : \A j \in at : i <= j]

\* The collection with every marker's required_type dropped.
RECURSIVE collect_markers_untyped(_, _, _)
collect_markers_untyped(classes, i, required) ==
    IF i > Len(classes) THEN required
    ELSE collect_markers_untyped(classes, i + 1,
             update(required,
                    [k \in DOMAIN Class[classes[i]].markers |-> "None"]))

\* The collection in which the first class to declare a name keeps it.
RECURSIVE collect_markers_first_wins(_, _, _)
collect_markers_first_wins(classes, i, required) ==
    IF i > Len(classes) THEN required
    ELSE collect_markers_first_wins(classes, i + 1,
             update(Class[classes[i]].markers, required))

\* required_attributes[key] = value.required_type, class after class
RECURSIVE collect_markers(_, _, _)
collect_markers(classes, i, required) ==
    IF i > Len(classes) THEN required
    ELSE collect_markers(classes, i + 1,
                         update(required, Class[classes[i]].markers))

\* The classes DStruct.required_attributes walks for c.
crawled(c) == extract_classes(c)

\* c.required_attributes: a literal mapping found on the way to DStruct, or
\* DStruct's classproperty, which collects the markers.
has_required_attributes(k) == k = "DStruct" \/ Class[k].literal # << >>

\* The class c.required_attributes is found on.
required_attributes_owner(c) ==
    LET mro == Class[c].mro
    IN  first_at(mro, {i \in DOMAIN mro : has_required_attributes(mro[i])})

required_attributes(c) ==
    LET owner == required_attributes_owner(c)
    IN  IF Class[owner].literal # << >>
        THEN Class[owner].literal[1]
        ELSE collect_markers(crawled(c), 1, EmptyDict)

\* c.struct_schema_check_on_init: DStruct's classproperty returns True.
has_check_on_init(k) == k = "DStruct" \/ Class[k].check_on_init # << >>

\* DStruct's answer, whatever the class sets.
struct_schema_check_on_init_base(c) == TRUE

struct_schema_check_on_init(c) ==
    LET mro == Class[c].mro
        owner == first_at(mro, {i \in DOMAIN mro : has_check_on_init(mro[i])})
    IN  IF Class[owner].check_on_init # << >>
        THEN Class[owner].check_on_init[1]
        ELSE TRUE

\* DStruct.get_extra_allowed_types
default_extra_allowed_types(type) ==
    IF type = "str" THEN <<"unicode">>
    ELSE IF type = "unicode" THEN <<"str">>
    ELSE << >>

\* The get_extra_allowed_types found from position i of the resolution
\* order on: an override (which may start from super's answer) or DStruct's.
RECURSIVE extra_allowed_from(_, _, _)
extra_allowed_from(mro, i, type) ==
    LET k == mro[i]
        own == Class[k].extra
    IN  IF k = "DStruct" THEN default_extra_allowed_types(type)
        ELSE IF ~own.own THEN extra_allowed_from(mro, i + 1, type)
        ELSE (IF own.super THEN extra_allowed_from(mro, i + 1, type)
              ELSE << >>)
             \o (IF type \in DOMAIN own.add THEN own.add[type] ELSE << >>)

\* get_extra_allowed_types with every override ignored.
get_extra_allowed_types_base(c, type) == default_extra_allowed_types(type)

get_extra_allowed_types(c, type) == extra_allowed_from(Class[c].mro, 1, type)

-----------------------------------------------------------------------------
(* src/dstruct.py: outcomes                                                 *)

Outcome(kind, key, value, type, expected, name) ==
    [kind |-> kind, key |-> key, value |-> value, type |-> type,
     expected |-> expected, name |-> name]

Nothing == Outcome("-", "", "", "", "", "")
Returned == Outcome("returned", "", "", "", "", "")
ReturnedValue(v) == Outcome("value", "", v, "", "", "")
KeyError(key) == Outcome("KeyError", key, "", "", "", "")
AttributeError(key) == Outcome("AttributeError", key, "", "", "", "")
TypeError(v) == Outcome("TypeError", "", v, TypeOf[v], "", "")

\* "You need an attribute called `{}` when making a {}"
RequiredAttributeMissing(struct_class, key) ==
    Outcome("RequiredAttributeMissing", key, "", "", "", struct_class)

\* "The value of the attribute`{}` must be an instance of {}.  Instead, I
\* got: {}, which is a {}"; the expected type is looked up in the schema of
\* the instance's own class, and the lookup fails if the key is not there.
RequiredAttributeInvalid(struct_class, key, value) ==
    IF key \in DOMAIN required_attributes(struct_class)
    THEN Outcome("RequiredAttributeInvalid", key, value, TypeOf[value],
                 required_attributes(struct_class)[key], "")
    ELSE KeyError(key)

-----------------------------------------------------------------------------
(* src/dstruct.py: check_struct_schema                                      *)

\* [1 for allowed_type in allowed_types if isinstance(value, allowed_type)]
type_matches(c, required_type, value) ==
    LET allowed_types ==
            <<required_type>> \o get_extra_allowed_types(c, required_type)
    IN  \E i \in DOMAIN allowed_types : isinstance(value, allowed_types[i])

\* The loop with a presence test that takes a None value for no value.
RECURSIVE check_items_truthy(_, _, _, _, _, _)
check_items_truthy(struct_class, d, c, required, items, i) ==
    IF i > Len(items) THEN [outcome |-> Returned, examined |-> items]
    ELSE
        LET key == items[i]
            required_type == required[key]
        IN  IF key \notin DOMAIN d \/ d[key] = "None"
            THEN [outcome |-> RequiredAttributeMissing(struct_class, key),
                  examined |-> SubSeq(items, 1, i)]
            ELSE IF required_type # "None"
                    /\ ~type_matches(c, required_type, d[key])
            THEN [outcome |->
                      RequiredAttributeInvalid(struct_class, key, d[key]),
                  examined |-> SubSeq(items, 1, i)]
            ELSE check_items_truthy(struct_class, d, c, required, items,
                                    i + 1)

\* The loop over clazz.required_attributes.items(), from the i-th item on.
RECURSIVE check_items(_, _, _, _, _, _)
check_items(struct_class, d, c, required, items, i) ==
    IF i > Len(items) THEN [outcome |-> Returned, examined |-> items]
    ELSE
        LET key == items[i]
            required_type == required[key]
        IN  IF key \notin DOMAIN d
            THEN [outcome |-> RequiredAttributeMissing(struct_class, key),
                  examined |-> SubSeq(items, 1, i)]
            ELSE IF required_type # "None"
                    /\ ~type_matches(c, required_type, d[key])
            THEN [outcome |->
                      RequiredAttributeInvalid(struct_class, key, d[key]),
                  examined |-> SubSeq(items, 1, i)]
            ELSE check_items(struct_class, d, c, required, items, i + 1)

\* if not clazz: clazz = self.__class__
checked_class(struct_class, c) == IF c = "None" THEN struct_class ELSE c

\* A check that also refuses fields the schema does not name.
check_struct_schema_strict(struct_class, d, c, items) ==
    LET from == checked_class(struct_class, c)
        required == required_attributes(from)
        unknown == DOMAIN d \ (DOMAIN required \cup {"_struct_has_loaded"})
    IN  IF unknown # {}
        THEN [outcome |-> KeyError(CHOOSE k \in unknown : TRUE),
              examined |-> << >>]
        ELSE IF Cardinality(DOMAIN required) > 0
        THEN check_items(struct_class, d, from, required, items, 1)
        ELSE [outcome |-> Returned, examined |-> << >>]

\* check_struct_schema(self, clazz) with the schema's items in this order.
check_struct_schema(struct_class, d, c, items) ==
    LET from == checked_class(struct_class, c)
        required == required_attributes(from)
    IN  IF Cardinality(DOMAIN required) > 0
        THEN check_items(struct_class, d, from, required, items, 1)
        ELSE [outcome |-> Returned, examined |-> << >>]

\* The orders a dictionary with these keys can be iterated in.
Orders(keys) ==
    {s \in [1 .. Cardinality(keys) -> keys] : Range(s) = keys}

-----------------------------------------------------------------------------
(* The instance                                                             *)

HasLoaded == "_struct_has_loaded"

Op(op, arg) == [op |-> op, arg |-> arg]

NoOrders == [c \in {} |-> << >>]

\* The constructor arguments a caller can pass: cls(input_dict, **entries),
\* with or without the positional mapping.
Arguments(names) ==
    {a \in [input_dict : {None} \cup {Mapping(m) : m \in Dicts(names, MaxInput)},
            entries : Dicts(names, MaxInput)] :
        Cardinality(DOMAIN a.input_dict.items)
            + Cardinality(DOMAIN a.entries) <= MaxInput}

\* A constructor call is in flight on a fresh instance.
InitWith(names) ==
    /\ cls \in Containers
    /\ \E a \in Arguments(names) :
          /\ input_dict = a.input_dict
          /\ entries = a.entries
    /\ dict = EmptyDict
    /\ pc = "call"
    /\ last = Op("-", "")
    /\ result = Nothing
    /\ clazz = "-"
    /\ schema = EmptyDict
    /\ visited = << >>
    /\ examined = << >>
    /\ items_order = NoOrders

\* No schema check is running: its frame is gone.
NoCheckFrame ==
    /\ clazz' = "-"
    /\ schema' = EmptyDict
    /\ visited' = << >>
    /\ examined' = << >>

\* __init__ has returned or raised and the caller moves on: its arguments
\* are gone.
NoInitFrame ==
    /\ input_dict' = None
    /\ entries' = EmptyDict

\* not input_dict: None and the empty mapping are both false.
falsy(d) == d.kind = "None" \/ DOMAIN d.items = {}

\* load_struct_inputs with the two updates in the other order.
loaded_mapping_wins(d, given, kw) ==
    LET mapping == IF falsy(given) THEN EmptyDict ELSE given.items
    IN  update(update(d, kw), mapping)

\* load_struct_inputs(self, input_dict, **entries)
loaded(d, given, kw) ==
    LET mapping == IF falsy(given) THEN EmptyDict ELSE given.items
    IN  update(update(d, mapping), kw)

\* __init__, step 1: self.load_struct_inputs(input_dict, **entries)
load_struct_inputs ==
    /\ pc = "call"
    /\ dict' = loaded(dict, input_dict, entries)
    /\ pc' = "loaded"
    /\ UNCHANGED <<cls, input_dict, entries, last, result, clazz, schema,
                   visited, examined, items_order>>

\* A marker that is stored only where the inputs gave no field of its name.
marked_if_absent(d) ==
    IF HasLoaded \in DOMAIN d THEN d
    ELSE update(d, [k \in {HasLoaded} |-> "True"])

\* self._struct_has_loaded = True
marked(d) == update(d, [k \in {HasLoaded} |-> "True"])

\* __init__, step 2
mark_loaded ==
    /\ pc = "loaded"
    /\ dict' = marked(dict)
    /\ pc' = "marked"
    /\ UNCHANGED <<cls, input_dict, entries, last, result, clazz, schema,
                   visited, examined, items_order>>

\* self.check_struct_schema is looked up on the instance first: a field of
\* that name hides the method, and none of the values can be called.
method_hidden(d) == "check_struct_schema" \in DOMAIN d

\* The call with the schema's items in whatever order, each time anew.
call_check_struct_schema_any_order(c) ==
    IF method_hidden(dict)
    THEN /\ result' = TypeError(dict["check_struct_schema"])
         /\ NoCheckFrame
         /\ UNCHANGED items_order
    ELSE LET from == checked_class(cls, c)
             required == required_attributes(from)
         IN  \E items \in Orders(DOMAIN required) :
                /\ LET run == check_struct_schema(cls, dict, c, items)
                   IN  /\ result' = run.outcome
                       /\ examined' = run.examined
                /\ clazz' = from
                /\ schema' = required
                /\ visited' =
                      IF Class[required_attributes_owner(from)].literal = << >>
                      THEN crawled(from) ELSE << >>
                /\ items_order' =
                      IF Len(items) > 1
                      THEN (from :> items) @@ items_order
                      ELSE items_order

\* self.check_struct_schema(clazz): the call and what it leaves behind.
call_check_struct_schema(c) ==
    IF method_hidden(dict)
    THEN /\ result' = TypeError(dict["check_struct_schema"])
         /\ NoCheckFrame
         /\ UNCHANGED items_order
    ELSE LET from == checked_class(cls, c)
             required == required_attributes(from)
         IN  \E items \in Orders(DOMAIN required) :
                /\ from \in DOMAIN items_order => items = items_order[from]
                /\ LET run == check_struct_schema(cls, dict, c, items)
                   IN  /\ result' = run.outcome
                       /\ examined' = run.examined
                /\ clazz' = from
                /\ schema' = required
                /\ visited' =
                      IF Class[required_attributes_owner(from)].literal = << >>
                      THEN crawled(from) ELSE << >>
                \* an order is a choice only where there are items to order
                /\ items_order' =
                      IF Len(items) > 1
                      THEN (from :> items) @@ items_order
                      ELSE items_order

\* __init__, step 3: if self.__class__.struct_schema_check_on_init:
\*                       self.check_struct_schema()
init_check ==
    /\ pc = "marked"
    /\ last' = Op("__init__", "")
    /\ IF struct_schema_check_on_init(cls)
       THEN call_check_struct_schema("None")
       ELSE /\ result' = Returned
            /\ NoCheckFrame
            /\ UNCHANGED items_order
    /\ pc' = IF result'.kind = "returned" THEN "constructed" ELSE "raised"
    /\ UNCHANGED <<cls, input_dict, entries, dict>>

\* Containers a caller may name in a check whatever the instance's class is:
\* clazz is any class with required_attributes and get_extra_allowed_types.
Strangers == {"SlowIntDeclared", "MapLocation"}

\* The classes an explicit check may name: none, one the instance's class
\* inherits from, or another container.
Checkable(c) ==
    {"None"} \cup (Range(extract_classes(c)) \cap Containers) \cup Strangers

\* instance.check_struct_schema(clazz), called by the instance's user
check ==
    /\ pc = "constructed"
    /\ \E c \in Checkable(cls) :
          /\ last' = Op("check_struct_schema", c)
          /\ call_check_struct_schema(c)
    /\ NoInitFrame
    /\ UNCHANGED <<cls, dict, pc>>

\* instance.<key> = value
setattr(names) ==
    /\ pc = "constructed"
    /\ \E key \in names, value \in Values :
          /\ dict' = update(dict, [k \in {key} |-> value])
          /\ last' = Op("setattr", "")
    /\ result' = Returned
    /\ NoCheckFrame
    /\ NoInitFrame
    /\ UNCHANGED <<cls, pc, items_order>>

\* A keyed read that answers None for a key that is not there.
getitem_or_none(d, key) ==
    IF key \in DOMAIN d THEN ReturnedValue(d[key]) ELSE ReturnedValue("None")

\* __getitem__(self, key): return self.__dict__[key]
getitem(d, key) ==
    IF key \in DOMAIN d THEN ReturnedValue(d[key]) ELSE KeyError(key)

\* instance[key]
subscript(names) ==
    /\ pc = "constructed"
    /\ \E key \in names :
          /\ last' = Op("__getitem__", key)
          /\ result' = getitem(dict, key)
    /\ NoCheckFrame
    /\ NoInitFrame
    /\ UNCHANGED <<cls, dict, pc, items_order>>

\* instance.<key>: the instance's own field first, then what the class has
\* under that name (a marker, the method), else AttributeError.
getattr(c, d, key) ==
    IF key \in DOMAIN d THEN ReturnedValue(d[key])
    ELSE IF key = "check_struct_schema"
    THEN Outcome("method", key, "", "", "", "")
    ELSE IF \E i \in DOMAIN Class[c].mro :
                key \in DOMAIN Class[Class[c].mro[i]].markers
    THEN Outcome("marker", key, "", "", "", "")
    ELSE AttributeError(key)

attribute(names) ==
    /\ pc = "constructed"
    /\ \E key \in names :
          /\ last' = Op("getattr", key)
          /\ result' = getattr(cls, dict, key)
    /\ NoCheckFrame
    /\ NoInitFrame
    /\ UNCHANGED <<cls, dict, pc, items_order>>

Init == InitWith(Names)

Next ==
    \/ load_struct_inputs
    \/ mark_loaded
    \/ init_check
    \/ check
    \/ setattr(Written)
    \/ subscript(Names)
    \/ attribute(Names)

Spec == Init /\ [][Next]_vars

\* The same, with field names that include the name of a method.
InitAnyName == InitWith(AnyNames)

NextAnyName ==
    \/ load_struct_inputs
    \/ mark_loaded
    \/ init_check
    \/ check
    \/ setattr(AnyWritten)

SpecAnyName == InitAnyName /\ [][NextAnyName]_vars

-----------------------------------------------------------------------------
(* What the claims speak of                                                 *)

\* __init__ has just returned or raised; its arguments are still at hand.
AfterInit == last.op = "__init__"

\* The constructor's inputs: the mapping (empty when absent) and the named
\* fields.
M == input_dict.items
K == entries

Supplied == DOMAIN M \cup DOMAIN K

\* M overlaid by K.
Overlay ==
    [k \in Supplied |-> IF k \in DOMAIN K THEN K[k] ELSE M[k]]

\* The class validates on construction: no class on its resolution order
\* sets struct_schema_check_on_init to False.
Automatic(c) ==
    \A i \in DOMAIN Class[c].mro :
        Class[Class[c].mro[i]].check_on_init # << FALSE >>

\* The class that overrides get_extra_allowed_types for c, if one does.
Overriders(c) ==
    {i \in DOMAIN Class[c].mro : Class[Class[c].mro[i]].extra.own}

DefaultRule(c) == Overriders(c) = {}

\* The types c's override returns for an expected type.
OverrideReturns(c, type) ==
    LET i == CHOOSE i \in Overriders(c) : \A j \in Overriders(c) : i <= j
        own == Class[Class[c].mro[i]].extra
    IN  (IF own.super THEN Range(default_extra_allowed_types(type)) ELSE {})
        \cup (IF type \in DOMAIN own.add THEN Range(own.add[type]) ELSE {})

\* A value meets an expected type under c's compatibility rule.
Accepts(c, type, value) ==
    \/ type = "None"
    \/ \E u \in {type} \cup Range(get_extra_allowed_types(c, type)) :
          issubclass(TypeOf[value], u)

\* The entries of a schema that the fields d do not meet.
Unmet(c, required, d) ==
    {k \in DOMAIN required :
        k \notin DOMAIN d \/ ~Accepts(c, required[k], d[k])}

\* The error an unmet entry stands for.
ErrorKind(d, k) ==
    IF k \in DOMAIN d THEN "RequiredAttributeInvalid"
    ELSE "RequiredAttributeMissing"

-----------------------------------------------------------------------------
(* Construction                                                             *)

\* C1, as claimed: after a successful construction from mapping M and named
\* fields K, every key of K holds K's value and every key only in M holds
\* M's value.
C1_InputsAsGiven ==
    (AfterInit /\ pc = "constructed") =>
        \A k \in Supplied : k \in DOMAIN dict /\ dict[k] = Overlay[k]

\* C1, amended: after a successful construction the fields are exactly M
\* overlaid by K (an absent or empty M counting as empty) and then by
\* _struct_has_loaded = True: the inputs' value for that one name is lost.
C1_OverlayThenMarker ==
    (AfterInit /\ pc = "constructed") =>
        dict = [k \in Supplied \cup {HasLoaded} |->
                    IF k = HasLoaded THEN "True" ELSE Overlay[k]]

\* A construction succeeded in which K and M gave one field different values.
C1_Witness ==
    /\ AfterInit
    /\ pc = "constructed"
    /\ \E k \in DOMAIN M \cap DOMAIN K : k # HasLoaded /\ M[k] # K[k]

\* C2: with automatic validation, a required attribute a without a type
\* constraint (the other requirements being met) makes construction raise
\* RequiredAttributeMissing for a when neither input supplies a, and lets it
\* succeed when a is supplied, whatever the value, None included.
C2_RequiredUntyped ==
    (AfterInit /\ Automatic(cls)) =>
        \A a \in DOMAIN schema :
            (schema[a] = "None" /\ Unmet(cls, schema, dict) \subseteq {a}) =>
                IF a \in Supplied
                THEN pc = "constructed" /\ result = Returned
                ELSE /\ pc = "raised"
                     /\ result.kind = "RequiredAttributeMissing"
                     /\ result.key = a
                     /\ result.name = cls

\* A construction succeeded whose untyped required attribute was given None.
C2_Witness ==
    /\ AfterInit
    /\ pc = "constructed"
    /\ Automatic(cls)
    /\ \E a \in DOMAIN schema \cap Supplied :
          schema[a] = "None" /\ Overlay[a] = "None"

\* C3: with automatic validation and the default compatibility rule, a
\* required attribute a with an expected type T that is no string type (the
\* other requirements being met) lets construction succeed when the supplied
\* value's type is T or a subtype of T, and otherwise (None included) makes
\* it raise RequiredAttributeInvalid, which reports a, T, the value and the
\* value's type as supplied.
C3_RequiredTyped ==
    (AfterInit /\ Automatic(cls) /\ DefaultRule(cls)) =>
        \A a \in DOMAIN schema \cap Supplied :
            (/\ schema[a] \notin {"None", "str", "unicode"}
             /\ Unmet(cls, schema, dict) \subseteq {a}) =>
                IF issubclass(TypeOf[Overlay[a]], schema[a])
                THEN pc = "constructed" /\ result = Returned
                ELSE /\ pc = "raised"
                     /\ result.kind = "RequiredAttributeInvalid"
                     /\ result.key = a
                     /\ result.value = Overlay[a]
                     /\ result.type = TypeOf[Overlay[a]]
                     /\ result.expected = schema[a]

\* A construction was refused because a typed attribute was given None.
C3_Witness ==
    /\ AfterInit
    /\ pc = "raised"
    /\ DefaultRule(cls)
    /\ result.kind = "RequiredAttributeInvalid"
    /\ result.value = "None"
    /\ result.expected \notin {"str", "unicode"}

\* C4: under an override of get_extra_allowed_types, a required attribute a
\* with expected type T (the other requirements being met) is accepted when
\* its value is an instance of T or of a type the override returns for T,
\* refused with RequiredAttributeInvalid when it is an instance of none of
\* them, and refused with RequiredAttributeMissing when absent, also when
\* the override makes NoneType acceptable.
C4_OverriddenRule ==
    (AfterInit /\ Automatic(cls) /\ ~DefaultRule(cls)) =>
        \A a \in DOMAIN schema :
            (schema[a] # "None" /\ Unmet(cls, schema, dict) \subseteq {a}) =>
                IF a \notin DOMAIN dict
                THEN /\ pc = "raised"
                     /\ result.kind = "RequiredAttributeMissing"
                     /\ result.key = a
                ELSE IF \E u \in {schema[a]}
                                 \cup OverrideReturns(cls, schema[a]) :
                            issubclass(TypeOf[dict[a]], u)
                THEN pc = "constructed" /\ result = Returned
                ELSE /\ pc = "raised"
                     /\ result.kind = "RequiredAttributeInvalid"
                     /\ result.key = a
                     /\ result.value = dict[a]

\* A construction succeeded with None where the schema expects an int and the
\* override returns NoneType for int.
C4_Witness ==
    /\ AfterInit
    /\ pc = "constructed"
    /\ ~DefaultRule(cls)
    /\ \E a \in DOMAIN schema \cap DOMAIN dict :
          /\ schema[a] = "int"
          /\ dict[a] = "None"
          /\ "NoneType" \in OverrideReturns(cls, "int")

-----------------------------------------------------------------------------
(* Deferred validation, authoring styles, extra fields, reads               *)

\* C5: a class with struct_schema_check_on_init = False is constructed
\* without any error whatever the inputs; a later explicit
\* check_struct_schema() succeeds if the fields then meet the schema, and
\* otherwise raises the error of an entry the fields do not meet then:
\* RequiredAttributeMissing for an absent one, RequiredAttributeInvalid for
\* a present one.
C5_DeferredValidation ==
    /\ (AfterInit /\ ~Automatic(cls)) =>
          (pc = "constructed" /\ result = Returned)
    /\ (~Automatic(cls) /\ last = Op("check_struct_schema", "None")) =>
          LET unmet == Unmet(cls, schema, dict)
          IN  IF unmet = {} THEN result = Returned
              ELSE /\ result.key \in unmet
                   /\ result.kind = ErrorKind(dict, result.key)

\* An instance of such a class exists and an explicit check refuses a field.
C5_Witness ==
    /\ ~Automatic(cls)
    /\ last = Op("check_struct_schema", "None")
    /\ result.kind = "RequiredAttributeInvalid"

\* The class that declares the same schema in the other authoring style.
Twin ==
    [ c \in {"CartesianCoordinate", "CartesianDict", "MapLocation",
             "MapLocationDict", "SlowInt", "SlowIntDeclared"} |->
        CASE c = "CartesianCoordinate" -> "CartesianDict"
          [] c = "CartesianDict"       -> "CartesianCoordinate"
          [] c = "MapLocation"         -> "MapLocationDict"
          [] c = "MapLocationDict"     -> "MapLocation"
          [] c = "SlowInt"             -> "SlowIntDeclared"
          [] c = "SlowIntDeclared"     -> "SlowInt" ]

\* What a check of an instance of c with fields d can end in, over the
\* orders c's schema can be iterated in.
Possible(c, d) ==
    {check_struct_schema(c, d, "None", items).outcome :
        items \in Orders(DOMAIN required_attributes(c))}

\* The same success or the same error, but for the class named in it.
SameOutcome(o, p) ==
    /\ o.kind = p.kind
    /\ o.key = p.key
    /\ o.value = p.value
    /\ o.type = p.type
    /\ o.expected = p.expected

\* C6: a class with a literal required_attributes mapping and the class that
\* declares the same names and types with markers have the same schema, and
\* every validation of one (at construction or explicit) ends as a
\* validation of the other can end on the same fields: the same success or
\* the same error for the same field.
C6_LiteralSchemaEquivalent ==
    (/\ cls \in DOMAIN Twin
     /\ last.op \in {"__init__", "check_struct_schema"}
     /\ clazz = cls) =>
        /\ schema = required_attributes(Twin[cls])
        /\ \E o \in Possible(Twin[cls], dict) : SameOutcome(result, o)

\* A construction from a literal-schema class was refused for a float where
\* an int is expected.
C6_Witness ==
    /\ cls = "SlowInt"
    /\ AfterInit
    /\ result.kind = "RequiredAttributeInvalid"
    /\ result.value = "9.4"

\* A validation has just run: at the end of __init__, or called explicitly.
Validated ==
    \/ AfterInit /\ Automatic(cls)
    \/ last.op = "check_struct_schema"

\* The class it took the schema from.
ValidatedClass ==
    IF last.op = "check_struct_schema" THEN checked_class(cls, last.arg)
    ELSE cls

\* The fields that the schema validated against does not name.
ExtraFields ==
    DOMAIN dict \ (DOMAIN required_attributes(ValidatedClass) \cup {HasLoaded})

\* C7, as claimed: whatever other fields there are, of any name and value, a
\* validation succeeds when the fields meet every entry of the schema (and
\* so always for a class without declarations).
C7_ExtraFieldsHarmless ==
    (/\ Validated
     /\ Unmet(ValidatedClass, required_attributes(ValidatedClass), dict) = {})
        => result = Returned

\* C7, amended: the same for fields of any name but check_struct_schema; a
\* field of that name hides the method on the instance.
C7_ExtraFieldsButMethodHarmless ==
    (/\ Validated
     /\ "check_struct_schema" \notin DOMAIN dict
     /\ Unmet(ValidatedClass, required_attributes(ValidatedClass), dict) = {})
        => result = Returned

\* A validation against a schema with entries succeeded on an instance that
\* has a field the schema does not name.
C7_Witness ==
    /\ Validated
    /\ result = Returned
    /\ DOMAIN required_attributes(ValidatedClass) # {}
    /\ ExtraFields # {}

-----------------------------------------------------------------------------
(* The schema collector                                                     *)

\* The collector ran for the last check (the class has no literal schema).
CollectorRan == visited # << >>

\* Where in the visiting order a name is declared.
Declarers(n) ==
    {i \in DOMAIN visited : n \in DOMAIN Class[visited[i]].markers}

FirstDeclarer(n) ==
    visited[CHOOSE i \in Declarers(n) : \A j \in Declarers(n) : i <= j]

LastDeclarer(n) ==
    visited[CHOOSE i \in Declarers(n) : \A j \in Declarers(n) : i >= j]

\* Depth-first, parents in declaration order, a class entered once and
\* "object" never.
RECURSIVE DepthFirst(_, _)
DepthFirst(stack, seen) ==
    IF stack = << >> THEN seen
    ELSE LET c == Head(stack)
         IN  IF c = "object" \/ c \in Range(seen)
             THEN DepthFirst(Tail(stack), seen)
             ELSE DepthFirst(Class[c].bases \o Tail(stack), Append(seen, c))

\* C9, as claimed: of several declarations of one name in the inheritance
\* graph, validation uses the one of the most specific class, the first the
\* collector discovers.
C9_MostSpecificWins ==
    CollectorRan =>
        \A n \in DOMAIN schema :
            schema[n] = Class[FirstDeclarer(n)].markers[n]

\* C10: the collector visits the class first and then its ancestors depth
\* first through the parents in declaration order, each class once and
\* "object" never; the schema's names are those of the markers the visited
\* classes declare themselves, each with the type of the last visited class
\* that declares it (so no markers, no entries).
C10_CollectorOrder ==
    CollectorRan =>
        /\ visited = DepthFirst(<<clazz>>, << >>)
        /\ visited[1] = clazz
        /\ \A i, j \in DOMAIN visited : i # j => visited[i] # visited[j]
        /\ "object" \notin Range(visited)
        /\ DOMAIN schema =
              UNION {DOMAIN Class[k].markers : k \in Range(visited)}
        /\ \A n \in DOMAIN schema :
              schema[n] = Class[LastDeclarer(n)].markers[n]

\* The collector walked the diamond, whose top is reached by two paths.
C10_Witness ==
    /\ clazz = "Bottom"
    /\ visited = <<"Bottom", "Left", "Top", "DStruct", "Right">>
    /\ schema = [x |-> "str", y |-> "float"]

-----------------------------------------------------------------------------
(* Outcomes of check_struct_schema                                          *)

\* The three outcomes check_struct_schema is written to have.
CheckOutcomes ==
    {"returned", "RequiredAttributeMissing", "RequiredAttributeInvalid"}

\* C11: for every instance and every class T given to check_struct_schema
\* (none given standing for the instance's own class) the call returns
\* nothing exactly when the fields meet every entry of T's schema, raises
\* RequiredAttributeMissing only for a name of T's schema that is no field,
\* raises RequiredAttributeInvalid only for a named field whose value none of
\* the accepted types takes, and ends in no other way.
C11_ThreeOutcomes ==
    Validated =>
        LET required == required_attributes(ValidatedClass)
            unmet == Unmet(ValidatedClass, required, dict)
        IN  /\ result.kind \in CheckOutcomes
            /\ result.kind = "returned" <=> unmet = {}
            /\ result.kind = "RequiredAttributeMissing" =>
                  result.key \in DOMAIN required \ DOMAIN dict
            /\ result.kind = "RequiredAttributeInvalid" =>
                  result.key \in unmet \cap DOMAIN dict

\* The order the last validation went through the schema's entries in: the
\* one on record for the class, or the only one there is.
Traversal ==
    IF ValidatedClass \in DOMAIN items_order THEN items_order[ValidatedClass]
    ELSE CHOOSE s \in Orders(DOMAIN required_attributes(ValidatedClass)) : TRUE

\* The place of the first of these entries in an order.
FirstOf(order, keys) ==
    CHOOSE i \in DOMAIN order :
        /\ order[i] \in keys
        /\ \A j \in 1 .. (i - 1) : order[j] \notin keys

\* C12: a validation goes through the schema's entries in one order and
\* stops at the first unmet one: it raises one error that names that entry,
\* RequiredAttributeMissing if the field is absent and RequiredAttributeInvalid
\* otherwise, and has looked at no later entry; Invalid is never raised for
\* an absent field nor Missing for a present one; and it returns, having
\* looked at every entry, exactly when no entry is unmet.
C12_FailFast ==
    Validated =>
        LET required == required_attributes(ValidatedClass)
            unmet == Unmet(ValidatedClass, required, dict)
        IN  /\ result.kind = "returned" <=> unmet = {}
            /\ unmet = {} => examined = Traversal
            /\ unmet # {} =>
                  LET i == FirstOf(Traversal, unmet)
                  IN  /\ examined = SubSeq(Traversal, 1, i)
                      /\ result.key = Traversal[i]
                      /\ result.kind = ErrorKind(dict, Traversal[i])
            /\ result.kind = "RequiredAttributeInvalid" =>
                  result.key \in DOMAIN dict
            /\ result.kind = "RequiredAttributeMissing" =>
                  result.key \notin DOMAIN dict

\* The class argument of the last validation: __init__ gives none.
ValidatedArgument ==
    IF last.op = "check_struct_schema" THEN last.arg ELSE "None"

\* The orders on record stay as they are.
OrdersKept ==
    \A c \in DOMAIN items_order :
        c \in DOMAIN items_order' /\ items_order'[c] = items_order[c]

\* C13: a validation, returning or raising, leaves the instance's fields as
\* they were and reads the same schema in the same order as any validation
\* against that class before it; so a validation that follows another of the
\* same class with no write between them ends as that one did, and the
\* outcome of any validation is the one that the instance's current fields
\* and the checked class give, whatever validations and writes came before.
C13_Repeatable ==
    /\ [][/\ Validated' => dict' = dict
          /\ OrdersKept
          /\ (Validated /\ Validated' /\ ValidatedClass' = ValidatedClass) =>
                /\ result' = result
                /\ schema' = schema
                /\ examined' = examined]_vars
    /\ [](Validated =>
            /\ schema = required_attributes(ValidatedClass)
            /\ result = check_struct_schema(cls, dict, ValidatedArgument,
                                            Traversal).outcome)

\* An instance that passed validation when it was made fails the same
\* validation after a write, on the second entry of a schema of two.
C13_Witness ==
    /\ last.op = "check_struct_schema"
    /\ Automatic(cls)
    /\ ValidatedClass = cls
    /\ cls \in DOMAIN items_order
    /\ result.kind \in {"RequiredAttributeMissing", "RequiredAttributeInvalid"}
    /\ Len(examined) = 2

-----------------------------------------------------------------------------
(* The marker _struct_has_loaded                                            *)

\* C14: in every construction _struct_has_loaded is set to True after the
\* mapping and the named fields are loaded and before validation starts:
\* before the load the instance has no such field, after the load the fields
\* are the inputs and nothing else, then the marker is True with no
\* validation begun, and it is True when __init__ ends, with a validation
\* that returned or raised or with none, also where the inputs gave a field
\* of that name another value.
C14_MarkedBeforeValidation ==
    /\ pc = "call" => HasLoaded \notin DOMAIN dict
    /\ pc = "loaded" => (dict = Overlay /\ result = Nothing)
    /\ pc = "marked" =>
          /\ dict = update(Overlay, [k \in {HasLoaded} |-> "True"])
          /\ result = Nothing
          /\ clazz = "-"
          /\ examined = << >>
    /\ AfterInit => (HasLoaded \in DOMAIN dict /\ dict[HasLoaded] = "True")

\* A construction whose inputs gave _struct_has_loaded another value has
\* ended with a validation that went through entries of the schema.
C14_Witness ==
    /\ AfterInit
    /\ Automatic(cls)
    /\ examined # << >>
    /\ HasLoaded \in Supplied
    /\ Overlay[HasLoaded] # "True"

\* The same where automatic validation is disabled.
C14_WitnessDeferred ==
    /\ AfterInit
    /\ ~Automatic(cls)
    /\ pc = "constructed"
    /\ HasLoaded \in Supplied
    /\ Overlay[HasLoaded] # "True"

=============================================================================
